---- MODULE Spec2Model ----
(***************************************************************************)
(* mygram: the photo-processing pipeline (scripts/process-photos.sh) and   *)
(* the lightbox viewer (js/lightbox.js).                                   *)
(*                                                                         *)
(* File names, slugs and URL hashes are sequences of one-character strings *)
(* so that the sed / tr / parameter-expansion pipelines of the script are  *)
(* computed character by character.  Dates are the ordinals of ISO-8601    *)
(* timestamps (0 is the empty string, which sorts before every timestamp). *)
(***************************************************************************)
EXTENDS Integers, Sequences, FiniteSets, TLC

\* ------------------------------------------------------------------------
\* Bounds of the model
\* ------------------------------------------------------------------------
MaxOriginals == 2
MaxPhotos == 3
MaxDate == 1
MaxTimers == 2
MaxTouches == 2

MaxPals == 2

MaxCards == 3

MaxDay == 3

MaxPosts == 2

\* ------------------------------------------------------------------------
\* Characters
\* ------------------------------------------------------------------------
LowerSeq ==
  <<"a","b","c","d","e","f","g","h","i","j","k","l","m",
    "n","o","p","q","r","s","t","u","v","w","x","y","z">>

UpperSeq ==
  <<"A","B","C","D","E","F","G","H","I","J","K","L","M",
    "N","O","P","Q","R","S","T","U","V","W","X","Y","Z">>

DigitSeq == <<"0","1","2","3","4","5","6","7","8","9">>

Lower == {LowerSeq[i] : i \in 1..26}

Upper == {UpperSeq[i] : i \in 1..26}

Digit == {DigitSeq[i] : i \in 1..10}

\* tr '[:upper:]' '[:lower:]' on one character
ToLowerChar(c) ==
  IF c \in Upper THEN LowerSeq[CHOOSE i \in 1..26 : UpperSeq[i] = c] ELSE c

\* byte value of a character: the order in which the shell's glob lists names
Ord(c) ==
  CASE c = " " -> 32
    [] c = "!" -> 33
    [] c = "-" -> 45
    [] c = "." -> 46
    [] c = "_" -> 95
    [] c \in Digit -> 47 + (CHOOSE i \in 1..10 : DigitSeq[i] = c)
    [] c \in Upper -> 64 + (CHOOSE i \in 1..26 : UpperSeq[i] = c)
    [] c \in Lower -> 96 + (CHOOSE i \in 1..26 : LowerSeq[i] = c)

\* ------------------------------------------------------------------------
\* String helpers of the script
\* ------------------------------------------------------------------------
\* sed 's/[[:space:]]/-/g'
SpaceToHyphen(c) == IF c = " " THEN "-" ELSE c

ReplaceSpaces(s) == [i \in 1..Len(s) |-> SpaceToHyphen(s[i])]

\* sed 's/[^a-zA-Z0-9._-]/-/g'
UnsafeToHyphen(c) ==
  IF c \in Lower \cup Upper \cup Digit \cup {".", "_", "-"} THEN c ELSE "-"

ReplaceUnsafe(s) == [i \in 1..Len(s) |-> UnsafeToHyphen(s[i])]

\* sed 's/[^a-z0-9-]/-/g'
NonSlugToHyphen(c) == IF c \in Lower \cup Digit \cup {"-"} THEN c ELSE "-"

ReplaceNonSlug(s) == [i \in 1..Len(s) |-> NonSlugToHyphen(s[i])]

\* tr '[:upper:]' '[:lower:]'
ToLower(s) == [i \in 1..Len(s) |-> ToLowerChar(s[i])]

\* sed 's/--*/-/g'
RECURSIVE Squeeze(_)
Squeeze(s) ==
  IF Len(s) <= 1 THEN s
  ELSE IF s[1] = "-" /\ s[2] = "-" THEN Squeeze(Tail(s))
  ELSE <<s[1]>> \o Squeeze(Tail(s))

\* sed 's/^-//;s/-$//'
StripEnds(s) ==
  LET a == IF s # <<>> /\ s[1] = "-" THEN Tail(s) ELSE s
  IN  IF a # <<>> /\ a[Len(a)] = "-" THEN SubSeq(a, 1, Len(a) - 1) ELSE a

LastDot(s) ==
  IF \E i \in 1..Len(s) : s[i] = "."
  THEN CHOOSE i \in 1..Len(s) : s[i] = "." /\ \A j \in (i+1)..Len(s) : s[j] # "."
  ELSE 0

\* ${name%.*}
StripExt(s) == IF LastDot(s) = 0 THEN s ELSE SubSeq(s, 1, LastDot(s) - 1)

\* ${name##*.}
ExtOf(s) == IF LastDot(s) = 0 THEN s ELSE SubSeq(s, LastDot(s) + 1, Len(s))

Sanitize(filename) ==
  StripEnds(Squeeze(ReplaceUnsafe(ReplaceSpaces(filename))))

SlugOf(filename) ==
  StripEnds(Squeeze(ReplaceNonSlug(ToLower(StripExt(filename)))))

SUPPORTED_EXTENSIONS ==
  { <<"j","p","g">>, <<"j","p","e","g">>, <<"p","n","g">>, <<"t","i","f","f">>,
    <<"t","i","f">>, <<"h","e","i","c">>, <<"h","e","i","f">>, <<"w","e","b","p">>,
    <<"a","v","i","f">>, <<"b","m","p">> }

IsSupported(filename) == ToLower(ExtOf(filename)) \in SUPPORTED_EXTENSIONS

IsHidden(filename) == filename # <<>> /\ filename[1] = "."

\* decimal digits of $counter
RECURSIVE DecStr(_)
DecStr(n) == IF n < 10 THEN <<DigitSeq[n + 1]>> ELSE DecStr(n \div 10) \o <<DigitSeq[(n % 10) + 1]>>

Suffixed(sanitized, counter) ==
  StripExt(sanitized) \o <<"-">> \o DecStr(counter) \o <<".">> \o ExtOf(sanitized)

\* the name the file is moved to: the sanitized name, or the first free
\* ${base}-${counter}.${ext_s} when a different file already has that name
RenameTarget(dir, filename) ==
  LET sanitized == Sanitize(filename)
  IN  IF sanitized \in dir
      THEN Suffixed(sanitized,
             CHOOSE k \in 1..(Cardinality(dir) + 1) :
               /\ Suffixed(sanitized, k) \notin dir
               /\ \A j \in 1..(k - 1) : Suffixed(sanitized, j) \in dir)
      ELSE sanitized

\* byte-wise lexicographic order of two names
RECURSIVE NameLess(_, _)
NameLess(a, b) ==
  IF a = <<>> THEN b # <<>>
  ELSE IF b = <<>> THEN FALSE
  ELSE IF a[1] = b[1] THEN NameLess(Tail(a), Tail(b))
  ELSE Ord(a[1]) < Ord(b[1])

\* "$ORIGINALS_DIR"/* : the non-hidden names of the directory, sorted
RECURSIVE SortedNames(_)
SortedNames(S) ==
  IF S = {} THEN <<>>
  ELSE LET m == CHOOSE x \in S : \A y \in S \ {x} : NameLess(x, y)
       IN  <<m>> \o SortedNames(S \ {m})

Glob(dir) == SortedNames({f \in dir : ~IsHidden(f)})

\* jq sort_by(.date): stable, ascending
InsertByDate(sorted, e) ==
  LET k == Cardinality({i \in 1..Len(sorted) : sorted[i].date <= e.date})
  IN  SubSeq(sorted, 1, k) \o <<e>> \o SubSeq(sorted, k + 1, Len(sorted))

RECURSIVE SortByDate(_)
SortByDate(s) ==
  IF s = <<>> THEN <<>>
  ELSE InsertByDate(SortByDate(SubSeq(s, 1, Len(s) - 1)), s[Len(s)])

\* jq reverse
Reverse(s) == [i \in 1..Len(s) |-> s[Len(s) + 1 - i]]

NewEntry(filename, date) ==
  [ filename |-> filename,
    web      |-> StripExt(filename) \o <<".","w","e","b","p">>,
    slug     |-> SlugOf(filename),
    date     |-> date ]

Filenames(ps) == {ps[i].filename : i \in 1..Len(ps)}

\* the <loc> lines of sitemap.xml
SitemapOf(base, ps) ==
  <<[base |-> base, hash |-> <<>>]>> \o
  [i \in 1..Len(ps) |-> [base |-> base, hash |-> <<"#photo=">> \o ps[i].slug]]

\* ------------------------------------------------------------------------
\* State
\* ------------------------------------------------------------------------
VARIABLES
  \* --- process-photos.sh and the files it works on ---
  originals,      \* names of the files in photos/originals
  photos,         \* .photos of data/photos.json
  siteUrl,        \* .profile.siteUrl of data/photos.json ("" when unset)
  sitemap,        \* <loc> entries of sitemap.xml (<<>> while the file is absent)
  pc,             \* "idle", "loop" (inside the for loop), "exited"
  exit_status,    \* how the last run ended: "none", "completed", "aborted"
  glob,           \* the paths of the for loop that are still to be visited
  known_files,    \* $known_files
  new_count,      \* $new_count
  \* --- bookkeeping of the current run, not used by the script ---
  photos0,        \* .photos when the run started
  rerun,          \* the run started right after a completed run, nothing changed in between
  failed,         \* file names for which exiftool or ImageMagick failed in this run
  \* --- the page: app.js, grid.js, albums.js, lightbox.js ---
  sitePhotos,     \* photos of data/photos.json as loaded by app.js
  view,           \* currentView of app.js: "mygram" or "palgram"
  _photos,        \* LightboxModule._photos
  _currentIndex,  \* LightboxModule._currentIndex (0-based)
  modal,          \* the Bootstrap modal: "hidden", "shown" (class show), "hiding"
  hash,           \* window.location.hash
  _suppressHashChange,
  rafPending,     \* a requestAnimationFrame callback that resets _suppressHashChange
  clipboard,      \* <<>> or <<url>>: what navigator.clipboard holds
  shared,         \* <<>> or <<photo>>: the photo that was displayed when share() ran
  landscape,      \* orientationQuery.matches
  isTouch,        \* matchMedia("(pointer: coarse)").matches
  _immersive,
  touches,        \* number of fingers on the photo container
  _pinching,
  transform,      \* photoEl.style.transform
  _touchMoved,
  _swiping,
  _touchDeltaX,
  _immSwipeDownTracking,
  _immSwipeDownDelta,
  timers,         \* pending 200 ms setTimeout callbacks, oldest first
  animStage,      \* nested requestAnimationFrame of the slide-in: frames still to wait
  \* --- PalgramModule
  palsJson,       \* palgram/pals.json: [status, pals]
  _initialised,   \* PalgramModule._initialised
  palPc,          \* where init() stands: "idle", "awaitPals", "awaitAll", "done", "rejected"
  palResults,     \* one promise per entry of pals: [state, value, outcome]
  _allPhotos,     \* PalgramModule._allPhotos
  feedCards,      \* <<>> until render() ran, then <<cards>>
  \* --- TimelineModule
  timeline,       \* children of #photoTimeline, <<>> before init
  \* --- AlbumsModule
  _currentAlbum,  \* index of the album whose detail view is rendered, -1 for null
  \* --- import-instagram.sh
  export,         \* posts_1.json of the Instagram export: a sequence of posts
  ig_pc,          \* "idle", "loop", "exited"
  ig_idx,         \* idx: loop index of the post being processed
  known_slugs,    \* slugs of the manifest as read before the loop
  ig_new_count,
  error_count,
  ig_photos0,     \* the photos array when the current import started
  ig_rerun        \* the current import follows an import of the same export without errors

importVars ==
  <<export, ig_pc, ig_idx, known_slugs, ig_new_count, error_count, ig_photos0, ig_rerun>>

scriptVars ==
  <<originals, photos, siteUrl, sitemap, pc, exit_status, glob, known_files,
    new_count, photos0, rerun, failed, importVars>>

pageVars ==
  <<sitePhotos, view, _photos, _currentIndex, modal, hash, _suppressHashChange,
    rafPending, clipboard, shared, landscape, isTouch, _immersive, touches,
    _pinching, transform, _touchMoved, _swiping, _touchDeltaX,
    _immSwipeDownTracking, _immSwipeDownDelta, timers, animStage>>

palgramVars == <<palsJson, _initialised, palPc, palResults, _allPhotos, feedCards>>

timelineVars == <<timeline>>

albumVars == <<_currentAlbum>>

moduleVars == <<palgramVars, timelineVars, albumVars>>

vars == <<scriptVars, pageVars, moduleVars>>

\* the files the user drops into photos/originals
UserFiles ==
  { <<"a"," ",".","j","p","g">>,
    <<"a","-",".","j","p","g">>,
    <<"a","-",".","p","n","g">>,
    <<"n",".","t","x","t">> }

SITE_URL == "https://yourname.github.io/mygram/"

Dates == 0..MaxDate

\* import-instagram.sh was never run, there is no export
NoImport ==
  /\ export = <<>>
  /\ ig_pc = "idle"
  /\ ig_idx = 0
  /\ known_slugs = {}
  /\ ig_new_count = 0
  /\ error_count = 0
  /\ ig_photos0 = <<>>
  /\ ig_rerun = FALSE

\* an empty project: no originals, an empty manifest, no run of process-photos.sh
InitProcess ==
  /\ originals = {}
  /\ photos = <<>>
  /\ siteUrl = ""
  /\ sitemap = <<>>
  /\ pc = "idle"
  /\ exit_status = "none"
  /\ glob = <<>>
  /\ known_files = {}
  /\ new_count = 0
  /\ photos0 = <<>>
  /\ rerun = FALSE
  /\ failed = {}

InitScript == InitProcess /\ NoImport

\* no page is open while the script is studied
NoPage ==
  /\ sitePhotos = <<>>
  /\ view = "mygram"
  /\ _photos = <<>>
  /\ _currentIndex = 0
  /\ modal = "hidden"
  /\ hash = <<>>
  /\ _suppressHashChange = FALSE
  /\ rafPending = FALSE
  /\ clipboard = <<>>
  /\ shared = <<>>
  /\ landscape = FALSE
  /\ isTouch = FALSE
  /\ _immersive = FALSE
  /\ touches = 0
  /\ _pinching = FALSE
  /\ transform = ""
  /\ _touchMoved = FALSE
  /\ _swiping = FALSE
  /\ _touchDeltaX = 0
  /\ _immSwipeDownTracking = FALSE
  /\ _immSwipeDownDelta = 0
  /\ timers = <<>>
  /\ animStage = 0

\* the Palgram tab was never opened
NoPalgram ==
  /\ palsJson = [status |-> "missing", pals |-> <<>>]
  /\ _initialised = FALSE
  /\ palPc = "idle"
  /\ palResults = <<>>
  /\ _allPhotos = <<>>
  /\ feedCards = <<>>

\* no page, no timeline
NoTimeline == timeline = <<>>

\* AlbumsModule shows the album grid
NoAlbum == _currentAlbum = -1

NoModules == NoPalgram /\ NoTimeline /\ NoAlbum

Init == InitScript /\ NoPage /\ NoModules

\* ------------------------------------------------------------------------
\* The user, between two runs of the script
\* ------------------------------------------------------------------------
Touched ==
  /\ pc' = "idle"
  /\ photos0' = <<>>
  /\ rerun' = FALSE
  /\ failed' = {}
  /\ exit_status' = "none"
  /\ UNCHANGED <<glob, known_files, new_count>>
  /\ UNCHANGED <<pageVars, moduleVars, importVars>>

AddFile(f) ==
  /\ pc # "loop"
  /\ f \notin originals
  /\ Cardinality(originals) < MaxOriginals
  /\ originals' = originals \cup {f}
  /\ Touched
  /\ UNCHANGED <<photos, siteUrl, sitemap>>

RemoveFile(f) ==
  /\ pc # "loop"
  /\ f \in originals
  /\ originals' = originals \ {f}
  /\ Touched
  /\ UNCHANGED <<photos, siteUrl, sitemap>>

SetSiteUrl(u) ==
  /\ pc # "loop"
  /\ u # siteUrl
  /\ siteUrl' = u
  /\ Touched
  /\ UNCHANGED <<originals, photos, sitemap>>

\* ------------------------------------------------------------------------
\* process-photos.sh
\* ------------------------------------------------------------------------
\* lines 94-100: read the known file names, expand the glob
StartRun ==
  /\ pc # "loop"
  /\ Len(photos) + Cardinality({f \in originals : f \notin Filenames(photos)}) <= MaxPhotos
  /\ pc' = "loop"
  /\ known_files' = Filenames(photos)
  /\ new_count' = 0
  /\ glob' = Glob(originals)
  /\ photos0' = photos
  /\ rerun' = (pc = "exited" /\ exit_status = "completed")
  /\ failed' = {}
  /\ UNCHANGED <<originals, photos, siteUrl, sitemap, exit_status>>
  /\ UNCHANGED <<pageVars, moduleVars, importVars>>

\* set -e: a command that fails ends the script on the spot
Abort ==
  /\ pc' = "exited"
  /\ exit_status' = "aborted"
  /\ glob' = <<>>
  /\ known_files' = {}
  /\ new_count' = 0

IsKnown_NeverSkips(filename) == FALSE

\* grep -qxF "$filename" over $known_files
IsKnown(filename) == filename \in known_files

\* lines 100-290: one iteration of the for loop
LoopStep(exifOk, magickOk, date) ==
  /\ pc = "loop"
  /\ glob # <<>>
  /\ LET filepath == Head(glob)
         renamed  == Sanitize(filepath) # filepath
         filename == IF renamed THEN RenameTarget(originals, filepath) ELSE filepath
         dir      == IF renamed THEN (originals \ {filepath}) \cup {filename} ELSE originals
         continue == /\ glob' = Tail(glob)
                     /\ UNCHANGED <<photos, pc, exit_status, known_files, new_count, failed>>
     IN  IF filepath \notin originals \/ IsHidden(filepath)
         THEN /\ continue
              /\ UNCHANGED originals
         ELSE IF renamed /\ Sanitize(filepath) = <<>>
         THEN \* mv onto the directory itself fails
              /\ Abort
              /\ UNCHANGED <<originals, photos, failed>>
         ELSE IF ~IsSupported(filename) \/ IsKnown(filename)
         THEN /\ continue
              /\ originals' = dir
         ELSE IF ~magickOk
         THEN /\ Abort
              /\ originals' = dir
              /\ failed' = failed \cup {filename}
              /\ UNCHANGED photos
         ELSE /\ originals' = dir
              /\ photos' = <<NewEntry(filename, date)>> \o photos
              /\ new_count' = new_count + 1
              /\ failed' = IF exifOk THEN failed ELSE failed \cup {filename}
              /\ glob' = Tail(glob)
              /\ UNCHANGED <<pc, exit_status, known_files>>
  /\ UNCHANGED <<siteUrl, sitemap, photos0, rerun>>
  /\ UNCHANGED <<pageVars, moduleVars, importVars>>

\* lines 292-321: sort newest-first, write sitemap.xml
Finish ==
  /\ pc = "loop"
  /\ glob = <<>>
  /\ photos' = IF new_count > 0 THEN Reverse(SortByDate(photos)) ELSE photos
  /\ sitemap' = IF new_count > 0 /\ siteUrl # ""
                THEN SitemapOf(siteUrl, photos')
                ELSE sitemap
  /\ pc' = "exited"
  /\ exit_status' = "completed"
  /\ known_files' = {}
  /\ new_count' = 0
  /\ UNCHANGED <<originals, siteUrl, glob, photos0, rerun, failed>>
  /\ UNCHANGED <<pageVars, moduleVars, importVars>>

NextScript ==
  \/ \E f \in UserFiles : AddFile(f)
  \/ \E f \in originals : RemoveFile(f)
  \/ \E u \in {"", SITE_URL} : SetSiteUrl(u)
  \/ StartRun
  \/ \E exifOk \in BOOLEAN, magickOk \in BOOLEAN, date \in Dates :
       LoopStep(exifOk, magickOk, date)
  \/ Finish

Next == NextScript

Spec == Init /\ [][Next]_vars


\* the script with the inputs that never reach a file name held fixed:
\* no site URL is configured and every photo carries the same date
NextFilenames ==
  \/ \E f \in UserFiles : AddFile(f)
  \/ \E f \in originals : RemoveFile(f)
  \/ StartRun
  \/ \E exifOk \in BOOLEAN, magickOk \in BOOLEAN : LoopStep(exifOk, magickOk, 0)
  \/ Finish

SpecFilenames == Init /\ [][NextFilenames]_vars

TypeOK ==
  /\ pc \in {"idle", "loop", "exited"}
  /\ exit_status \in {"none", "completed", "aborted"}
  /\ new_count \in 0..(MaxPhotos + 4)

\* ------------------------------------------------------------------------
\* The page: lightbox.js and the modules that open the lightbox
\* ------------------------------------------------------------------------
SWIPE_THRESHOLD == 50

SWIPE_DOWN_THRESHOLD == 80

PAL_URL == "https://friend.github.io/mygram/"

\* a photo of data/photos.json as the page sees it (no _palBaseUrl)
FromManifest(e) ==
  [filename |-> e.filename, slug |-> e.slug, date |-> e.date, _palBaseUrl |-> ""]

\* a manifest the script writes for a-.png and a-.jpg, plus an entry
\* without slug field
SiteDup ==
  << FromManifest(NewEntry(<<"a","-",".","p","n","g">>, 1)),
     FromManifest(NewEntry(<<"a","-",".","j","p","g">>, 1)),
     [filename |-> <<"B",".","j","p","g">>, slug |-> <<>>, date |-> 0, _palBaseUrl |-> ""] >>

SiteDistinct ==
  << FromManifest(NewEntry(<<"a","-",".","j","p","g">>, 1)),
     [filename |-> <<"B",".","j","p","g">>, slug |-> <<>>, date |-> 0, _palBaseUrl |-> ""] >>

Sites == {SiteDup, SiteDistinct}

\* albums.js renderDetail: the photos of the one album of the site
AlbumPhotos(site) == <<site[Len(site) - 1]>>

\* the albums array of data/photos.json
Albums(site) == << [id |-> <<"x">>, photos |-> AlbumPhotos(site)] >>

IsAlbumHash(h) == h # <<>> /\ h[1] = "#album="

AlbumHash(album) == <<"#album=">> \o album.id

\* _albums.findIndex((a) => a.id === albumId), 0-based, -1 when absent
AlbumIndexById(albums, albumId) ==
  IF \E i \in 1..Len(albums) : albums[i].id = albumId
  THEN (CHOOSE i \in 1..Len(albums) :
          /\ albums[i].id = albumId
          /\ \A j \in 1..(i - 1) : albums[j].id # albumId) - 1
  ELSE -1

\* AlbumsModule.checkHash at init: the album to render, -1 for the grid
AlbumsCheckHash(albums, h) ==
  IF IsAlbumHash(h) THEN AlbumIndexById(albums, Tail(h)) ELSE -1

\* palgram.js init: own photos and the photos of one pal
PalgramFeed(site) ==
  site \o <<[filename |-> <<"p",".","j","p","g">>, slug |-> <<"p">>, date |-> 0,
              _palBaseUrl |-> PAL_URL]>>

HashInputs ==
  { <<>>, <<"#photo=","a">>, <<"#photo=","b">>, <<"#photo=","z">>, <<"#album=","x">> }

\* filename.replace(/\.[^.]+$/, "")
JsStripExt(s) == IF LastDot(s) = 0 \/ LastDot(s) = Len(s) THEN s ELSE SubSeq(s, 1, LastDot(s) - 1)

slugFor(photo) ==
  IF photo.slug # <<>> THEN photo.slug
  ELSE StripEnds(Squeeze(ReplaceNonSlug(ToLower(JsStripExt(photo.filename)))))

\* _photos.findIndex(...), 0-based, -1 when absent
indexBySlug(list, slug) ==
  IF \E i \in 1..Len(list) : slugFor(list[i]) = slug
  THEN (CHOOSE i \in 1..Len(list) :
          /\ slugFor(list[i]) = slug
          /\ \A j \in 1..(i - 1) : slugFor(list[j]) # slug) - 1
  ELSE -1

IsPhotoHash(h) == h # <<>> /\ h[1] = "#photo="

IsLocal(photo) == photo._palBaseUrl = ""

PhotoHash(photo) == <<"#photo=">> \o slugFor(photo)

\* show(index) on the list, with the address bar holding curHash
show(list, index, curHash) ==
  IF index < 0 \/ index >= Len(list)
  THEN /\ _currentIndex' = _currentIndex
       /\ hash' = curHash
       /\ UNCHANGED <<_suppressHashChange, rafPending>>
  ELSE /\ _currentIndex' = index
       /\ hash' = IF IsLocal(list[index + 1]) THEN PhotoHash(list[index + 1]) ELSE <<>>
       /\ _suppressHashChange' = TRUE
       /\ rafPending' = TRUE

clearHash ==
  /\ hash' = <<>>
  /\ _suppressHashChange' = TRUE
  /\ rafPending' = TRUE

\* _modal.show(): ignored while the modal is in its hide transition
ModalShow(m) == IF m = "hiding" THEN m ELSE "shown"

\* _modal.hide(): removes class show, hidden.bs.modal follows
ModalHide(m) == IF m = "shown" THEN "hiding" ELSE m

Abs(n) == IF n < 0 THEN -n ELSE n

\* ------------------------------------------------------------------------
\* TimelineModule
\* ------------------------------------------------------------------------
\* dates are day numbers, 0 is the empty string
DaysPerMonth == 2

\* getMonthKey: "" for no date, else the month of the date
getMonthKey(date) == IF date = 0 THEN <<>> ELSE <<(date - 1) \div DaysPerMonth>>

\* the forEach loop of init from photo i on, lastMonthKey as given
RECURSIVE TimelineLoop(_, _, _)
TimelineLoop(list, i, lastMonthKey) ==
  IF i > Len(list) THEN <<>>
  ELSE LET monthKey == getMonthKey(list[i].date)
           card == [kind |-> "card", key |-> monthKey, index |-> i - 1]
       IN  IF monthKey # <<>> /\ monthKey # lastMonthKey
           THEN <<[kind |-> "divider", key |-> monthKey, index |-> -1], card>>
                  \o TimelineLoop(list, i + 1, monthKey)
           ELSE <<card>> \o TimelineLoop(list, i + 1, lastMonthKey)

\* TimelineModule.init(photos): the children of #photoTimeline
TimelineOf(list) ==
  IF list = <<>> THEN <<[kind |-> "empty", key |-> <<>>, index |-> -1]>>
  ELSE TimelineLoop(list, 1, <<>>)

\* what a loaded page starts with: the timeline of the manifest, no feed yet
LoadedModules == NoPalgram /\ timeline = TimelineOf(sitePhotos) /\ NoAlbum

navVars == <<_currentIndex, hash, _suppressHashChange, rafPending>>

touchVars ==
  <<touches, _pinching, transform, _touchMoved, _swiping, _touchDeltaX,
    _immSwipeDownTracking, _immSwipeDownDelta>>

deviceVars == <<sitePhotos, isTouch, landscape>>

FreshPage(site, touch, land) ==
  /\ sitePhotos = site
  /\ view = "mygram"
  /\ _photos = site
  /\ _currentIndex = 0
  /\ modal = "hidden"
  /\ hash = <<>>
  /\ _suppressHashChange = FALSE
  /\ rafPending = FALSE
  /\ clipboard = <<>>
  /\ shared = <<>>
  /\ landscape = land
  /\ isTouch = touch
  /\ _immersive = FALSE
  /\ touches = 0
  /\ _pinching = FALSE
  /\ transform = ""
  /\ _touchMoved = FALSE
  /\ _swiping = FALSE
  /\ _touchDeltaX = 0
  /\ _immSwipeDownTracking = FALSE
  /\ _immSwipeDownDelta = 0
  /\ timers = <<>>
  /\ animStage = 0

InitPage ==
  /\ InitScript
  /\ \E site \in Sites, touch \in BOOLEAN : FreshPage(site, touch, FALSE)
  /\ LoadedModules

\* a fresh page: PalgramModule as constructed
ResetPalgram ==
  /\ _initialised' = FALSE
  /\ palPc' = "idle"
  /\ palResults' = <<>>
  /\ _allPhotos' = <<>>
  /\ feedCards' = <<>>
  /\ UNCHANGED palsJson

\* app.js + LightboxModule.init: the page is loaded with hash h
LoadPage(h) ==
  /\ view' = "mygram"
  /\ _photos' = sitePhotos
  /\ IF IsPhotoHash(h) /\ indexBySlug(sitePhotos, Tail(h)) # -1
     THEN /\ show(sitePhotos, indexBySlug(sitePhotos, Tail(h)), h)
          /\ modal' = "shown"
     ELSE /\ _currentIndex' = 0
          /\ hash' = h
          /\ _suppressHashChange' = FALSE
          /\ rafPending' = FALSE
          /\ modal' = "hidden"
  /\ _immersive' = FALSE
  /\ touches' = 0
  /\ _pinching' = FALSE
  /\ transform' = ""
  /\ _touchMoved' = FALSE
  /\ _swiping' = FALSE
  /\ _touchDeltaX' = 0
  /\ _immSwipeDownTracking' = FALSE
  /\ _immSwipeDownDelta' = 0
  /\ timers' = <<>>
  /\ animStage' = 0
  /\ UNCHANGED <<deviceVars, clipboard, shared>>
  /\ ResetPalgram
  /\ timeline' = TimelineOf(sitePhotos)
  /\ _currentAlbum' = AlbumsCheckHash(Albums(sitePhotos), h)
  /\ UNCHANGED scriptVars

\* grid.js: click on grid item idx
GridClick(idx) ==
  /\ modal = "hidden"
  /\ view = "mygram"
  /\ show(_photos, idx, hash)
  /\ modal' = ModalShow(modal)
  /\ UNCHANGED <<deviceVars, view, _photos, clipboard, shared, _immersive, touchVars, timers, animStage>>
  /\ UNCHANGED <<scriptVars, moduleVars>>

\* albums.js handleDetailClick: click on photo idx of the album
AlbumPhotoClick(idx) ==
  /\ modal = "hidden"
  /\ view = "mygram"
  /\ _currentAlbum # -1
  /\ _photos' = Albums(sitePhotos)[_currentAlbum + 1].photos
  /\ show(_photos', idx, hash)
  /\ modal' = ModalShow(modal)
  /\ UNCHANGED <<deviceVars, view, clipboard, shared, _immersive, touchVars, timers, animStage>>
  /\ UNCHANGED <<scriptVars, moduleVars>>

\* albums.js back button
AlbumBack ==
  /\ modal = "hidden"
  /\ view = "mygram"
  /\ _currentAlbum # -1
  /\ _currentAlbum' = -1
  /\ _photos' = sitePhotos
  /\ hash' = <<>>
  /\ UNCHANGED <<deviceVars, view, _currentIndex, _suppressHashChange, rafPending, modal,
                 clipboard, shared, _immersive, touchVars, timers, animStage>>
  /\ UNCHANGED <<scriptVars, palgramVars, timelineVars>>

\* albums.js: click on album idx of the album grid
AlbumGridClick(idx) ==
  /\ modal = "hidden"
  /\ view = "mygram"
  /\ _currentAlbum = -1
  /\ idx < Len(Albums(sitePhotos))
  /\ _currentAlbum' = idx
  /\ hash' = IF Albums(sitePhotos)[idx + 1].id # <<>>
             THEN AlbumHash(Albums(sitePhotos)[idx + 1])
             ELSE hash
  /\ UNCHANGED <<deviceVars, view, _photos, _currentIndex, _suppressHashChange, rafPending,
                 modal, clipboard, shared, _immersive, touchVars, timers, animStage>>
  /\ UNCHANGED <<scriptVars, palgramVars, timelineVars>>

\* app.js switchView
SwitchView(v) ==
  /\ modal = "hidden"
  /\ view' = v
  /\ _photos' = IF v = "palgram" THEN _photos ELSE sitePhotos
  /\ IF v = "palgram" /\ ~_initialised
     THEN \* PalgramModule.init up to its first await
          /\ _initialised' = TRUE
          /\ palPc' = "awaitPals"
          /\ UNCHANGED <<palsJson, palResults, _allPhotos, feedCards>>
     ELSE UNCHANGED palgramVars
  /\ UNCHANGED <<deviceVars, navVars, modal, clipboard, shared, _immersive, touchVars,
                 timers, animStage>>
  /\ UNCHANGED <<scriptVars, timelineVars, albumVars>>

\* palgram.js: tap on photo idx of the feed
PalgramClick(idx) ==
  /\ modal = "hidden"
  /\ view = "palgram"
  /\ _photos' = PalgramFeed(sitePhotos)
  /\ show(_photos', idx, hash)
  /\ modal' = ModalShow(modal)
  /\ UNCHANGED <<deviceVars, view, clipboard, shared, _immersive, touchVars, timers, animStage>>
  /\ UNCHANGED <<scriptVars, moduleVars>>

\* prev / next buttons and arrow keys
Navigate(d) ==
  /\ modal = "shown"
  /\ show(_photos, _currentIndex + d, hash)
  /\ UNCHANGED <<deviceVars, view, _photos, modal, clipboard, shared, _immersive, touchVars,
                 timers, animStage>>
  /\ UNCHANGED <<scriptVars, moduleVars>>

\* share(): the URL written to the clipboard
share ==
  /\ modal = "shown"
  /\ _currentIndex < Len(_photos)
  /\ LET photo == _photos[_currentIndex + 1]
     IN  /\ clipboard' = <<[ base |-> IF IsLocal(photo) THEN SITE_URL ELSE photo._palBaseUrl,
                             hash |-> PhotoHash(photo) ]>>
         /\ shared' = <<photo>>
  /\ UNCHANGED <<deviceVars, view, _photos, navVars, modal, _immersive, touchVars, timers, animStage>>
  /\ UNCHANGED <<scriptVars, moduleVars>>

\* close button, Escape, click on the backdrop
Close ==
  /\ modal = "shown"
  /\ modal' = ModalHide(modal)
  /\ UNCHANGED <<deviceVars, view, _photos, navVars, clipboard, shared, _immersive, touchVars,
                 timers, animStage>>
  /\ UNCHANGED <<scriptVars, moduleVars>>

\* hidden.bs.modal: clearHash and exitImmersive
ModalHidden ==
  /\ modal = "hiding"
  /\ modal' = "hidden"
  /\ clearHash
  /\ _immersive' = FALSE
  /\ UNCHANGED <<deviceVars, view, _photos, _currentIndex, clipboard, shared, touchVars,
                 timers, animStage>>
  /\ UNCHANGED <<scriptVars, moduleVars>>

\* the hashchange listener, after the user changed the hash to h
HashChange(h) ==
  /\ h # hash
  /\ IF _suppressHashChange
     THEN /\ hash' = h
          /\ UNCHANGED <<_currentIndex, _suppressHashChange, rafPending, modal>>
     ELSE IF IsPhotoHash(h)
     THEN IF indexBySlug(_photos, Tail(h)) # -1
          THEN /\ show(_photos, indexBySlug(_photos, Tail(h)), h)
               /\ modal' = ModalShow(modal)
          ELSE /\ hash' = h
               /\ UNCHANGED <<_currentIndex, _suppressHashChange, rafPending, modal>>
     ELSE /\ hash' = h
          /\ modal' = ModalHide(modal)
          /\ UNCHANGED <<_currentIndex, _suppressHashChange, rafPending>>
  /\ UNCHANGED <<deviceVars, view, _photos, clipboard, shared, _immersive, touchVars, timers, animStage>>
  /\ UNCHANGED <<scriptVars, moduleVars>>

\* the next animation frame: reset of _suppressHashChange, slide-in of the photo
AnimationFrame ==
  /\ rafPending \/ animStage > 0
  /\ rafPending' = FALSE
  /\ _suppressHashChange' = IF rafPending THEN FALSE ELSE _suppressHashChange
  /\ animStage' = IF animStage > 0 THEN animStage - 1 ELSE 0
  /\ transform' = IF animStage = 1 THEN "" ELSE transform
  /\ UNCHANGED <<deviceVars, view, _photos, _currentIndex, hash, modal, clipboard, shared, _immersive,
                 touches, _pinching, _touchMoved, _swiping, _touchDeltaX,
                 _immSwipeDownTracking, _immSwipeDownDelta, timers>>
  /\ UNCHANGED <<scriptVars, moduleVars>>

\* handleOrientationChange: the device is rotated
OrientationChange ==
  /\ landscape' = ~landscape
  /\ _immersive' = IF modal = "shown" /\ isTouch THEN landscape' ELSE _immersive
  /\ UNCHANGED <<sitePhotos, isTouch, view, _photos, navVars, modal, clipboard, shared,
                 touchVars, timers, animStage>>
  /\ UNCHANGED <<scriptVars, moduleVars>>

\* finger displacements since touchstart, in px
DX == {-60, 60}

DY == {0, 90}

\* touchstart on the photo container: swipe handler, then pinch handler
TouchStart ==
  /\ isTouch
  /\ modal # "hidden"
  /\ touches < MaxTouches
  /\ touches' = touches + 1
  /\ _touchDeltaX' = 0
  /\ _touchMoved' = FALSE
  /\ _swiping' = FALSE
  /\ IF _immersive /\ touches' = 2
     THEN /\ _pinching' = TRUE
          /\ _immSwipeDownTracking' = FALSE
     ELSE UNCHANGED <<_pinching, _immSwipeDownTracking>>
  /\ UNCHANGED <<deviceVars, view, _photos, navVars, modal, clipboard, shared, _immersive,
                 transform, _immSwipeDownDelta, timers, animStage>>
  /\ UNCHANGED <<scriptVars, moduleVars>>

\* touchmove: swipe handler, then pinch / swipe-down handler
TouchMove(dx, dy, scale) ==
  /\ touches > 0
  /\ LET tracked  == ~_pinching
         swiping1 == IF tracked /\ _immersive
                     THEN _swiping \/ (Abs(dx) > 10 /\ Abs(dx) > Abs(dy))
                     ELSE _swiping
         dragging == tracked /\ _immersive /\ swiping1
         pinchMove == _immersive /\ _pinching /\ touches = 2
         downMove == /\ ~pinchMove
                     /\ _immersive /\ ~swiping1 /\ ~_pinching
                     /\ dy > 10 /\ dy > Abs(dx)
     IN  /\ _touchMoved' = IF tracked THEN TRUE ELSE _touchMoved
         /\ _swiping' = swiping1
         /\ _touchDeltaX' = IF dragging THEN dx ELSE _touchDeltaX
         /\ transform' = IF pinchMove THEN (IF scale > 1 THEN "scale(2)" ELSE "scale(1)")
                         ELSE IF downMove THEN "translateY"
                         ELSE IF dragging THEN "translateX"
                         ELSE transform
         /\ _immSwipeDownTracking' = IF downMove THEN TRUE ELSE _immSwipeDownTracking
         /\ _immSwipeDownDelta' = IF downMove THEN dy ELSE _immSwipeDownDelta
  /\ UNCHANGED <<deviceVars, view, _photos, navVars, modal, clipboard, shared, _immersive,
                 touches, _pinching, timers, animStage>>
  /\ UNCHANGED <<scriptVars, moduleVars>>

\* touchend: swipe handler, then pinch / swipe-down handler
TouchEnd(dx, dy) ==
  /\ touches > 0
  /\ touches' = touches - 1
  /\ LET handled  == ~_pinching /\ _touchMoved
         slide    == handled /\ _immersive /\ _swiping /\ Abs(_touchDeltaX) > SWIPE_THRESHOLD
         goNext   == _touchDeltaX < 0
         nextIdx  == IF goNext THEN _currentIndex + 1 ELSE _currentIndex - 1
         inRange  == nextIdx >= 0 /\ nextIdx < Len(_photos)
         simple   == handled /\ ~slide /\ Abs(dx) > SWIPE_THRESHOLD /\ Abs(dx) > Abs(dy)
         snapBack == handled /\ ~slide /\ _immersive /\ _swiping
         \* state after the swipe handler
         transform1 == IF slide THEN (IF inRange THEN "translateX(100vw)" ELSE "")
                       ELSE IF snapBack THEN "" ELSE transform
         timers1    == IF slide /\ inRange
                       THEN Append(timers, [kind |-> "show", idx |-> nextIdx, goNext |-> goNext])
                       ELSE timers
         \* the pinch / swipe-down handler
         pinchEnd == _immersive /\ _pinching
         downEnd  == ~pinchEnd /\ _immersive /\ _immSwipeDownTracking
         closing  == downEnd /\ _immSwipeDownDelta > SWIPE_DOWN_THRESHOLD
     IN  /\ IF simple
            THEN show(_photos, IF dx < 0 THEN _currentIndex + 1 ELSE _currentIndex - 1, hash)
            ELSE UNCHANGED navVars
         /\ _swiping' = IF handled THEN FALSE ELSE _swiping
         /\ _pinching' = IF pinchEnd /\ touches' = 0 THEN FALSE ELSE _pinching
         /\ transform' = IF pinchEnd THEN (IF touches' = 0 THEN "scale(1)" ELSE transform1)
                         ELSE IF closing THEN "translateY(100vh)"
                         ELSE IF downEnd THEN ""
                         ELSE transform1
         /\ timers' = IF closing THEN Append(timers1, [kind |-> "hide", idx |-> 0, goNext |-> FALSE]) ELSE timers1
         /\ Len(timers') <= MaxTimers
         /\ _immSwipeDownTracking' = IF downEnd THEN FALSE ELSE _immSwipeDownTracking
         /\ _immSwipeDownDelta' = IF downEnd THEN 0 ELSE _immSwipeDownDelta
  /\ UNCHANGED <<deviceVars, view, _photos, modal, clipboard, shared, _immersive,
                 _touchMoved, _touchDeltaX, animStage>>
  /\ UNCHANGED <<scriptVars, moduleVars>>

\* the oldest 200 ms timer fires: slide to the next photo, or close
TimerFires ==
  /\ timers # <<>>
  /\ timers' = Tail(timers)
  /\ IF Head(timers).kind = "show"
     THEN /\ show(_photos, Head(timers).idx, hash)
          /\ transform' = "translateX(100vw)"
          /\ animStage' = 2
          /\ UNCHANGED modal
     ELSE /\ modal' = ModalHide(modal)
          /\ transform' = ""
          /\ UNCHANGED <<navVars, animStage>>
  /\ UNCHANGED <<deviceVars, view, _photos, clipboard, shared, _immersive, touches, _pinching,
                 _touchMoved, _swiping, _touchDeltaX, _immSwipeDownTracking, _immSwipeDownDelta>>
  /\ UNCHANGED <<scriptVars, moduleVars>>

\* deep links, sharing and the views that open the lightbox
NextLinks ==
  \/ \E h \in HashInputs \cup {clipboard[i].hash : i \in 1..Len(clipboard)} : LoadPage(h)
  \/ \E idx \in 0..(Len(sitePhotos) - 1) : GridClick(idx)
  \/ \E idx \in 0..(Len(AlbumPhotos(sitePhotos)) - 1) : AlbumPhotoClick(idx)
  \/ AlbumBack
  \/ \E idx \in 0..(Len(Albums(sitePhotos)) - 1) : AlbumGridClick(idx)
  \/ \E v \in {"mygram", "palgram"} : SwitchView(v)
  \/ \E idx \in 0..(Len(PalgramFeed(sitePhotos)) - 1) : PalgramClick(idx)
  \/ \E d \in {-1, 1} : Navigate(d)
  \/ share
  \/ Close
  \/ ModalHidden
  \/ \E h \in HashInputs : HashChange(h)
  \/ AnimationFrame
  \/ OrientationChange

SpecLinks == InitPage /\ [][NextLinks]_vars

\* gestures on a touch device showing the site's own photos
InitGestures ==
  /\ InitScript
  /\ FreshPage(SiteDup, TRUE, FALSE)
  /\ LoadedModules

NextGestures ==
  \/ LoadPage(<<>>)
  \/ \E idx \in 0..(Len(sitePhotos) - 1) : GridClick(idx)
  \/ \E d \in {-1, 1} : Navigate(d)
  \/ Close
  \/ ModalHidden
  \/ AnimationFrame
  \/ OrientationChange
  \/ TouchStart
  \/ \E dx \in DX, dy \in DY, scale \in {1, 2} : TouchMove(dx, dy, scale)
  \/ \E dx \in DX, dy \in DY : TouchEnd(dx, dy)
  \/ TimerFires

SpecGestures == InitGestures /\ [][NextGestures]_vars

TypeOKPage ==
  /\ modal \in {"hidden", "shown", "hiding"}
  /\ touches \in 0..MaxTouches
  /\ Len(timers) <= MaxTimers
  /\ animStage \in 0..2

\* ------------------------------------------------------------------------
\* PalgramModule: the merged feed
\* ------------------------------------------------------------------------
\* URLs of pal sites, with and without the trailing slash
PalUrls == { <<"p","/">>, <<"p">>, <<"q","/">> }

\* an entry of the pals array: an object with a url field (admin.js addPal)
\* or a plain URL string (README)
PalEntries ==
  {[form |-> "object", url |-> u] : u \in PalUrls}
    \cup {[form |-> "string", url |-> <<"q","/">>]}

\* what a fetch of palgram/pals.json can give
PalsJsonInputs ==
  {[status |-> "ok", pals |-> ps] : ps \in UNION {[1..n -> PalEntries] : n \in 0..MaxPals}}
    \cup {[status |-> st, pals |-> <<>>] : st \in {"missing", "invalid"}}

\* data/photos.json of the user's own site, as process-photos.sh leaves it
OwnManifests ==
  { << NewEntry(<<"o",".","j","p","g">>, 2) >>,
    << NewEntry(<<"o",".","j","p","g">>, 2), NewEntry(<<"n",".","j","p","g">>, 0) >> }

\* data/photos.json of a pal site; a negative date is a date before 1970
PalManifest(base) ==
  IF base = <<"p","/">>
  THEN << NewEntry(<<"x",".","j","p","g">>, 2), NewEntry(<<"y",".","j","p","g">>, 0) >>
  ELSE IF base = <<"q","/">>
  THEN << NewEntry(<<"z",".","j","p","g">>, 1), NewEntry(<<"w",".","j","p","g">>, -1) >>
  ELSE <<>>

\* how the fetch of a pal's data/photos.json ends
FetchOutcomes == {"ok", "network", "status", "json"}

\* palUrl.endsWith("/") ? palUrl : palUrl + "/"
BaseOf(palUrl) ==
  IF palUrl # <<>> /\ palUrl[Len(palUrl)] = "/" THEN palUrl ELSE palUrl \o <<"/">>

\* { ...photo, _palBaseUrl: base }; the empty base marks a local photo
Tagged(photo, base) ==
  [filename |-> photo.filename, slug |-> photo.slug, date |-> photo.date,
   _palBaseUrl |-> base]

TagAll(list, base) == [i \in 1..Len(list) |-> Tagged(list[i], base)]

\* fetchPal(pal.url) as far as it runs synchronously: a string entry has no
\* url field, endsWith is called on undefined before the try block
fetchPal(pal) ==
  IF pal.form = "object"
  THEN [state |-> "pending", base |-> BaseOf(pal.url), value |-> <<>>, outcome |-> "none"]
  ELSE [state |-> "rejected", base |-> <<>>, value |-> <<>>, outcome |-> "typeerror"]

\* a.date ? new Date(a.date) : new Date(0), in days since 1970
SortTime(photo) == IF photo.date = 0 THEN 0 ELSE photo.date

\* one step of a stable sort with the comparator  db - da
RECURSIVE InsertNewestFirst(_, _)
InsertNewestFirst(sorted, photo) ==
  IF sorted = <<>> THEN <<photo>>
  ELSE IF SortTime(Head(sorted)) >= SortTime(photo)
  THEN <<Head(sorted)>> \o InsertNewestFirst(Tail(sorted), photo)
  ELSE <<photo>> \o sorted

RECURSIVE SortNewestFirst(_)
SortNewestFirst(list) ==
  IF list = <<>> THEN <<>>
  ELSE InsertNewestFirst(SortNewestFirst(SubSeq(list, 1, Len(list) - 1)), list[Len(list)])

\* palResults.flat()
RECURSIVE Flat(_)
Flat(results) ==
  IF results = <<>> THEN <<>> ELSE Head(results).value \o Flat(Tail(results))

\* the Palgram tab is about to be opened for the first time
InitPalgram ==
  /\ InitScript
  /\ \E site \in OwnManifests : FreshPage(site, FALSE, FALSE)
  /\ palsJson \in PalsJsonInputs
  /\ _initialised = FALSE
  /\ palPc = "idle"
  /\ palResults = <<>>
  /\ _allPhotos = <<>>
  /\ feedCards = <<>>
  /\ timeline = TimelineOf(sitePhotos)
  /\ NoAlbum

\* init after the fetch of pals.json: pals.map(pal => fetchPal(pal.url))
PalsJsonResponse ==
  /\ palPc = "awaitPals"
  /\ LET pals == IF palsJson.status = "ok" THEN palsJson.pals ELSE <<>>
     IN  palResults' = [i \in 1..Len(pals) |-> fetchPal(pals[i])]
  /\ palPc' = "awaitAll"
  /\ UNCHANGED <<palsJson, _initialised, _allPhotos, feedCards>>
  /\ UNCHANGED <<scriptVars, pageVars, timelineVars, albumVars>>

\* fetchPal: the response for entry i arrives
FetchPalResponse(i, outcome) ==
  /\ palPc \in {"awaitAll", "rejected"}
  /\ i \in 1..Len(palResults)
  /\ palResults[i].state = "pending"
  /\ palResults' =
       [palResults EXCEPT ![i] =
          [state |-> "fulfilled",
           base |-> @.base,
           value |-> IF outcome = "ok" THEN TagAll(PalManifest(@.base), @.base) ELSE <<>>,
           outcome |-> outcome]]
  /\ UNCHANGED <<palsJson, _initialised, palPc, _allPhotos, feedCards>>
  /\ UNCHANGED <<scriptVars, pageVars, timelineVars, albumVars>>

\* init after await Promise.all(...): merge, sort, render
AllSettled ==
  /\ palPc = "awaitAll"
  /\ IF \E i \in 1..Len(palResults) : palResults[i].state = "rejected"
     THEN /\ palPc' = "rejected"
          /\ UNCHANGED <<_allPhotos, feedCards>>
     ELSE /\ \A i \in 1..Len(palResults) : palResults[i].state = "fulfilled"
          /\ _allPhotos' = SortNewestFirst(TagAll(sitePhotos, <<>>) \o Flat(palResults))
          /\ feedCards' = <<_allPhotos'>>
          /\ palPc' = "done"
  /\ UNCHANGED <<palsJson, _initialised, palResults>>
  /\ UNCHANGED <<scriptVars, pageVars, timelineVars, albumVars>>

NextPalgram ==
  \/ \E v \in {"mygram", "palgram"} : SwitchView(v)
  \/ PalsJsonResponse
  \/ \E i \in 1..MaxPals, outcome \in FetchOutcomes : FetchPalResponse(i, outcome)
  \/ AllSettled

SpecPalgram == InitPalgram /\ [][NextPalgram]_vars

\* ------------------------------------------------------------------------
\* TimelineModule.init on every photo list
\* ------------------------------------------------------------------------
\* the photo at position i of a manifest, taken on day d
TimelinePhoto(i, d) ==
  [filename |-> <<"t">> \o DecStr(i) \o <<".","j","p","g">>, slug |-> <<>>, date |-> d,
   _palBaseUrl |-> ""]

\* data/photos.json in any order: the page sorts nothing
TimelineInputs ==
  UNION { {[i \in 1..n |-> TimelinePhoto(i, ds[i])] : ds \in [1..n -> 0..MaxDay]} :
          n \in 0..MaxCards }

\* app.js has fetched the manifest and is about to initialise the modules
InitTimeline ==
  /\ InitScript
  /\ \E site \in TimelineInputs : FreshPage(site, FALSE, FALSE)
  /\ NoPalgram
  /\ NoAlbum
  /\ timeline = <<>>

\* TimelineModule.init(photos, profile)
TimelineInit ==
  /\ timeline = <<>>
  /\ timeline' = TimelineOf(sitePhotos)
  /\ UNCHANGED <<scriptVars, pageVars, palgramVars, albumVars>>

NextTimeline == TimelineInit

SpecTimeline == InitTimeline /\ [][NextTimeline]_vars

\* ------------------------------------------------------------------------
\* import-instagram.sh
\* ------------------------------------------------------------------------
\* values of creation_timestamp in posts_1.json: absent, 0, or seconds
Timestamps == { <<>>, <<"0">>, <<"5">>, <<"7">> }

\* a post: its creation_timestamp, that of its first media item, and the
\* uri of the first media item
Post(ts, mts, n) ==
  [creation_timestamp |-> ts, media_ts |-> mts,
   uri |-> <<"m">> \o DecStr(n) \o <<".","j","p","g">>]

Exports ==
  UNION { {[i \in 1..n |-> Post(ts[i], mts[i], i)] :
             ts \in [1..n -> Timestamps], mts \in [1..n -> {<<>>, <<"5">>}]} :
          n \in 0..MaxPosts }

\* date -r "$ts" "+%Y-%m-%dT%H:%M:%S", as a day number; 0 is the empty string
DateOfTs(ts) ==
  IF ts = <<>> \/ ts = <<"0">> THEN 0
  ELSE CHOOSE d \in 1..9 : DigitSeq[d + 1] = ts[1]

\* post_date with its fallback to the first media item
PostDate(post) ==
  IF DateOfTs(post.creation_timestamp) # 0 THEN DateOfTs(post.creation_timestamp)
  ELSE DateOfTs(post.media_ts)

\* creation_ts after the fallback block
CreationTs(post) ==
  IF DateOfTs(post.creation_timestamp) = 0 /\ DateOfTs(post.media_ts) # 0
  THEN post.media_ts
  ELSE post.creation_timestamp

\* base_slug, then tr and the three sed substitutions
IgSlug(post, i) ==
  LET base_slug == IF CreationTs(post) # <<>>
                   THEN <<"i","g","-">> \o CreationTs(post)
                   ELSE <<"i","g","-","p","o","s","t","-">> \o DecStr(i)
  IN  StripEnds(Squeeze(ReplaceNonSlug(ToLower(base_slug))))

\* the entry appended for a post whose media were processed
IgEntry(post, i) ==
  [ filename |-> post.uri,
    web      |-> IgSlug(post, i) \o <<".","w","e","b","p">>,
    slug     |-> IgSlug(post, i),
    date     |-> PostDate(post) ]

\* jq -r '.photos[].slug // empty'
SlugsOf(ps) == {ps[i].slug : i \in 1..Len(ps)} \ {<<>>}

\* an export folder is at hand, the manifest is empty
InitImport ==
  /\ InitProcess
  /\ NoPage
  /\ NoModules
  /\ export \in Exports
  /\ ig_pc = "idle"
  /\ ig_idx = 0
  /\ known_slugs = {}
  /\ ig_new_count = 0
  /\ error_count = 0
  /\ ig_photos0 = <<>>
  /\ ig_rerun = FALSE

processVars ==
  <<originals, siteUrl, pc, exit_status, glob, known_files, new_count, photos0, rerun, failed>>

\* the script is started: known_slugs is read once, before the loop
ImportStart ==
  /\ ig_pc # "loop"
  /\ ig_pc' = "loop"
  /\ known_slugs' = SlugsOf(photos)
  /\ ig_idx' = 0
  /\ ig_new_count' = 0
  /\ error_count' = 0
  /\ ig_photos0' = photos
  /\ ig_rerun' = (ig_pc = "exited" /\ error_count = 0)
  /\ UNCHANGED <<export, photos, sitemap, processVars>>
  /\ UNCHANGED <<pageVars, moduleVars>>

\* one iteration of the loop over the posts; mediaOk: at least one media
\* item of the post was converted
ImportStep(mediaOk) ==
  /\ ig_pc = "loop"
  /\ ig_idx < Len(export)
  /\ LET post == export[ig_idx + 1]
         slug == IgSlug(post, ig_idx)
     IN  IF slug \in known_slugs
         THEN UNCHANGED <<photos, ig_new_count, error_count>>
         ELSE IF ~mediaOk
         THEN /\ error_count' = error_count + 1
              /\ UNCHANGED <<photos, ig_new_count>>
         ELSE /\ photos' = Append(photos, IgEntry(post, ig_idx))
              /\ ig_new_count' = ig_new_count + 1
              /\ UNCHANGED error_count
  /\ ig_idx' = ig_idx + 1
  /\ UNCHANGED <<export, ig_pc, known_slugs, ig_photos0, ig_rerun, sitemap, processVars>>
  /\ UNCHANGED <<pageVars, moduleVars>>

\* after the loop: sort newest-first, write sitemap.xml
ImportFinish ==
  /\ ig_pc = "loop"
  /\ ig_idx = Len(export)
  /\ photos' = IF ig_new_count > 0 THEN Reverse(SortByDate(photos)) ELSE photos
  /\ sitemap' = IF ig_new_count > 0 /\ siteUrl # ""
                THEN SitemapOf(siteUrl, photos')
                ELSE sitemap
  /\ ig_pc' = "exited"
  /\ UNCHANGED <<export, ig_idx, known_slugs, ig_new_count, error_count, ig_photos0, ig_rerun,
                 processVars>>
  /\ UNCHANGED <<pageVars, moduleVars>>

NextImport ==
  \/ ImportStart
  \/ \E mediaOk \in BOOLEAN : ImportStep(mediaOk)
  \/ ImportFinish

SpecImport == InitImport /\ [][NextImport]_vars

\* ------------------------------------------------------------------------
\* Properties of process-photos.sh
\* ------------------------------------------------------------------------
RunCompleted == pc = "exited" /\ exit_status = "completed"

\* C1: a run that follows a completed run, with photos/originals and the
\* manifest untouched in between, leaves the photos array as it was, and in
\* every run a file whose name is already in the manifest adds no entry.
C1_Idempotent ==
  /\ [](RunCompleted /\ rerun => photos = photos0)
  /\ [][(pc = "loop" /\ glob # <<>> /\ Head(glob) \in Filenames(photos))
          => photos' = photos]_vars

\* C2: no two entries of the photos array have the same slug.
C2_UniqueSlugs ==
  \A i \in 1..Len(photos) : \A j \in 1..Len(photos) :
    i # j => photos[i].slug # photos[j].slug

\* C3: no two entries of the photos array have the same filename, also
\* when files were renamed by sanitisation and by the collision suffix.
C3_UniqueFilenames ==
  \A i \in 1..Len(photos) : \A j \in 1..Len(photos) :
    i # j => photos[i].filename # photos[j].filename

\* an entry named by the collision suffix stands next to the entry of the
\* file that held the sanitized name
C3_Witness ==
  /\ <<"a","-","-","1",".","j","p","g">> \in Filenames(photos)
  /\ <<"a","-",".","j","p","g">> \in Filenames(photos)

\* C4: a file for which exiftool or ImageMagick fails gets no entry, every
\* other new supported file of the directory gets one in the same run, and
\* the run reaches the sort step.
C4_SkipFailedFile ==
  (pc = "exited" /\ failed # {}) =>
    /\ exit_status = "completed"
    /\ \A f \in failed : f \notin Filenames(photos)
    /\ \A f \in originals :
         (IsSupported(f) /\ ~IsHidden(f) /\ f \notin failed) => f \in Filenames(photos)

\* C5: after a completed run the photos array is sorted newest-first.
C5_SortedAfterRun ==
  RunCompleted =>
    \A i \in 1..(Len(photos) - 1) : photos[i].date >= photos[i + 1].date

\* C6: a completed run with a non-empty siteUrl leaves a sitemap.xml that
\* lists the site URL and one #photo=<slug> URL per entry of the photos array.
C6_SitemapAfterRun ==
  (RunCompleted /\ siteUrl # "") => sitemap = SitemapOf(siteUrl, photos)

\* ------------------------------------------------------------------------
\* Properties of the lightbox
\* ------------------------------------------------------------------------
Displayed == _photos[_currentIndex + 1]

LinkHashes == HashInputs \cup {clipboard[i].hash : i \in 1..Len(clipboard)}

\* the photo whose link was copied is a local photo of the manifest
SharedLocal ==
  /\ shared # <<>>
  /\ IsLocal(shared[1])
  /\ \E i \in 1..Len(sitePhotos) : sitePhotos[i] = shared[1]

\* C7: share() copies a URL ending in #photo=slugFor(p); loading the page or
\* receiving a hashchange with that hash opens the lightbox on p; a hash whose
\* slug matches no photo opens nothing and leaves the lightbox as it was.
C7_DeepLinkRoundTrip ==
  [][ /\ (share /\ IsLocal(Displayed)) => clipboard'[1].hash = PhotoHash(Displayed)
      /\ \A h \in LinkHashes :
           ((LoadPage(h) \/ HashChange(h)) /\ SharedLocal /\ h = PhotoHash(shared[1]))
             => /\ modal' = "shown"
                /\ _currentIndex' < Len(_photos')
                /\ _photos'[_currentIndex' + 1] = shared[1]
      /\ \A h \in LinkHashes :
           (LoadPage(h) /\ IsPhotoHash(h) /\ indexBySlug(sitePhotos, Tail(h)) = -1)
             => modal' = "hidden"
      /\ \A h \in LinkHashes :
           (HashChange(h) /\ IsPhotoHash(h) /\ indexBySlug(_photos, Tail(h)) = -1)
             => UNCHANGED <<modal, _photos, _currentIndex>>
    ]_vars

\* C8: while the lightbox is open on a local photo the hash is #photo= plus
\* the slug of that photo; while it is open on a pal's photo there is no
\* #photo= hash.
C8_HashTracksPhoto ==
  (modal = "shown" /\ _currentIndex < Len(_photos)) =>
    IF IsLocal(Displayed) THEN hash = PhotoHash(Displayed) ELSE ~IsPhotoHash(hash)

\* C9: on a touch device an open lightbox is immersive exactly when the
\* orientation is landscape.
C9_ImmersiveIffLandscape ==
  (isTouch /\ modal = "shown") => (_immersive <=> landscape)

\* C10: once all fingers are lifted the pinch state is cleared: _pinching is
\* false and the photo is not left zoomed.
C10_PinchReleased ==
  touches = 0 => (~_pinching /\ transform # "scale(2)")

\* ------------------------------------------------------------------------
\* Properties of the Palgram feed
\* ------------------------------------------------------------------------
InitCompleted == palPc \in {"done", "rejected"}

\* the cards of the feed, in order
Feed == IF feedCards = <<>> THEN <<>> ELSE feedCards[1]

FeedSet == {Feed[i] : i \in 1..Len(Feed)}

OwnTagged == {Tagged(sitePhotos[i], <<>>) : i \in 1..Len(sitePhotos)}

\* the photos of the listed pals whose data/photos.json was fetched
FetchedPalPhotos ==
  UNION { {Tagged(PalManifest(palResults[i].base)[k], palResults[i].base) :
             k \in 1..Len(PalManifest(palResults[i].base))} :
          i \in {j \in 1..Len(palResults) : palResults[j].outcome = "ok"} }

\* C11: once init has completed the feed holds exactly the own photos and
\* the photos of every pal that was fetched, each photo once, newest first
\* with the undated photos last.
C11_FeedContents ==
  InitCompleted =>
    /\ FeedSet = OwnTagged \cup FetchedPalPhotos
    /\ \A i \in 1..Len(Feed) : \A j \in 1..Len(Feed) : i # j => Feed[i] # Feed[j]
    /\ \A i \in 1..Len(Feed) : \A j \in 1..Len(Feed) :
         i < j => /\ Feed[i].date = 0 => Feed[j].date = 0
                  /\ (Feed[i].date # 0 /\ Feed[j].date # 0) => Feed[i].date >= Feed[j].date

\* C12: once init has completed the feed is rendered and holds the own
\* photos and the photos of every pal that was fetched, whatever happened to
\* the other entries of pals.json.
C12_FailingPalSkipped ==
  InitCompleted =>
    /\ feedCards # <<>>
    /\ OwnTagged \cup FetchedPalPhotos \subseteq FeedSet
    /\ \A i \in 1..Len(palResults) :
         palResults[i].outcome \notin {"ok", "none"} => palResults[i].value = <<>>

\* ------------------------------------------------------------------------
\* Properties of the timeline
\* ------------------------------------------------------------------------
Dividers == {n \in 1..Len(timeline) : timeline[n].kind = "divider"}

DatedCards == {n \in 1..Len(timeline) : timeline[n].kind = "card" /\ timeline[n].key # <<>>}

\* the divider a card stands under: the nearest one above it
DividerOf(n) ==
  IF \E d \in Dividers : d < n
  THEN CHOOSE d \in Dividers : d < n /\ \A e \in Dividers : e < n => e <= d
  ELSE 0

\* C13: every card of a dated photo stands under the divider of its own
\* month, and every month that has photos has exactly one divider.
C13_GroupedByMonth ==
  /\ \A n \in DatedCards :
       DividerOf(n) # 0 /\ timeline[DividerOf(n)].key = timeline[n].key
  /\ \A n \in DatedCards :
       Cardinality({d \in Dividers : timeline[d].key = timeline[n].key}) = 1

\* ------------------------------------------------------------------------
\* Properties of the album views
\* ------------------------------------------------------------------------
DetailDisplayed == _currentAlbum # -1

\* C14: loading the page with the hash of an existing album renders that
\* album; opening an album from the grid sets the hash to #album=<id>; and
\* when the lightbox has closed over an album's detail view the hash is
\* #album=<id> of that album.
C14_AlbumHash ==
  [][ /\ \A h \in HashInputs :
           (LoadPage(h) /\ IsAlbumHash(h) /\ AlbumIndexById(Albums(sitePhotos), Tail(h)) # -1)
             => /\ _currentAlbum' = AlbumIndexById(Albums(sitePhotos), Tail(h))
                /\ hash' = h
      /\ \A idx \in 0..(Len(Albums(sitePhotos)) - 1) :
           AlbumGridClick(idx) => hash' = AlbumHash(Albums(sitePhotos)[idx + 1])
      /\ (ModalHidden /\ DetailDisplayed)
           => hash' = AlbumHash(Albums(sitePhotos)[_currentAlbum + 1])
    ]_vars

\* ------------------------------------------------------------------------
\* Properties of import-instagram.sh
\* ------------------------------------------------------------------------
\* C15: no two entries of the photos array have the same slug, during and
\* after every import, and an import that follows an import of the same
\* export ends with the photos array it started with.
C15_ImportUnique ==
  /\ \A i \in 1..Len(photos) : \A j \in 1..Len(photos) :
       i # j => photos[i].slug # photos[j].slug
  /\ (ig_pc = "exited" /\ ig_rerun) => photos = ig_photos0

\* ------------------------------------------------------------------------
\* Properties of the immersive swipe
\* ------------------------------------------------------------------------
\* the callback about to run belongs to a completed immersive swipe
SwipeLands == timers # <<>> /\ Head(timers).kind = "show"

\* C16: when the exit animation of a completed immersive swipe ends, the
\* lightbox moves by exactly one photo in the direction of the swipe.
C16_SwipeMovesOne ==
  [][ (TimerFires /\ SwipeLands)
        => _currentIndex' = _currentIndex + (IF Head(timers).goNext THEN 1 ELSE -1) ]_vars

====
